---------------------------- MODULE Spec2Model ----------------------------
(***************************************************************************)
(* Model of the signal engine of JOS-RE/Financial-analytics                *)
(* (src/models/algo_trading.py) as it is driven by the Algorithmic Trading *)
(* page (src/pages/1_Algorithmic_Trading.py).                              *)
(*                                                                         *)
(* Numbers.  Every float of the program is modelled by an exact rational   *)
(* [num, den] with den >= 0; den = 0 is NaN, and a comparison with NaN is  *)
(* false, as in IEEE arithmetic.  Rounding error of the floating-point     *)
(* rolling means is not modelled.  The metrics (annualized return,         *)
(* volatility, Sharpe ratio) are modelled by their class: "nan", "zero",   *)
(* "positive", "finite", "-inf", "+inf".                                   *)
(***************************************************************************)
EXTENDS Integers, Sequences, FiniteSets, TLC

VARIABLES
    pc,              \* position of the page script: "fetch", "stopped", "done"
    prices,          \* the price table get_price_data returns, oldest bar first
    strategy_group,  \* the sidebar's Strategy Group
    rf,              \* the sidebar's risk-free rate, in basis points of 1
    results,         \* the page's results list, one StrategyResult per strategy
    page,            \* the page script that runs (a file of src/pages)
    panel,           \* pages 2 to 5: the price table of the tickers, a record
                     \* of its kind ("None", "DataFrame", "unfetched") and rows
    calls,           \* the functions of utils and models called after the fetch
    shown,           \* the conditions the page has reported (st.error, st.warning)
    scan,            \* the locals of the optimisation call that runs or ran last
    env              \* pages 2 to 5: the names the page script has bound

vars == <<pc, prices, strategy_group, rf, results, page, panel, calls, shown, scan, env>>

\* The state of the Algorithmic Trading page, and that of the other pages.
trading == <<prices, strategy_group, rf, results>>

---------------------------------------------------------------------------
(* Bounds of the model.                                                    *)

\* The longest price table.
MaxBars == 30
\* The largest number of one-bar runs in a price table.
MaxSingles == 2
\* The price levels a bar may close at.
Levels == {2, 3, 9}
\* A level is held for one bar or for a week of bars.
RunLens == {1, 7}
\* The risk-free rate the sidebar's number input is left at (0.065).
RfChoices == {650}

---------------------------------------------------------------------------
(* Program constants.                                                      *)

fast_default == 7
slow_default == 14
period_default == 14
oversold_default == 30
overbought_default == 70
sma7_window == 7
sma14_window == 14
sma21_window == 21
TradingDays == 252
\* rf is kept in basis points: RfScale * rf(program) = rf(model).
RfScale == 10000

---------------------------------------------------------------------------
(* Rationals with NaN.                                                     *)

Rat(n, d) == [num |-> n, den |-> d]
NaN == Rat(0, 0)
IsNaN(q) == q.den = 0
Int2Rat(n) == Rat(n, 1)
LT(a, b) == ~IsNaN(a) /\ ~IsNaN(b) /\ a.num * b.den < b.num * a.den
LE(a, b) == ~IsNaN(a) /\ ~IsNaN(b) /\ a.num * b.den <= b.num * a.den
GT(a, b) == LT(b, a)
GE(a, b) == LE(b, a)
EQ(a, b) == ~IsNaN(a) /\ ~IsNaN(b) /\ a.num * b.den = b.num * a.den
Abs(n) == IF n < 0 THEN -n ELSE n
Max(a, b) == IF a >= b THEN a ELSE b
Min(a, b) == IF a <= b THEN a ELSE b

RECURSIVE SumRange(_, _, _)
SumRange(f, lo, hi) == IF lo > hi THEN 0 ELSE f[hi] + SumRange(f, lo, hi - 1)

---------------------------------------------------------------------------
(* Data loading.                                                           *)

\* A variant of the change that is taken relative to the later observation.
get_returns_on_later(price_data) ==
    [k \in 1..(Len(price_data) - 1) |->
        [bar |-> k + 1,
         val |-> Rat(price_data[k + 1] - price_data[k], price_data[k + 1])]]

\* price_data.pct_change().dropna(): one return per bar from the second on,
\* keeping the index (the bar) of the later observation.
get_returns(price_data) ==
    [k \in 1..(Len(price_data) - 1) |->
        [bar |-> k + 1,
         val |-> Rat(price_data[k + 1] - price_data[k], price_data[k])]]

\* Index alignment of pd.DataFrame({...}): the value of `series` at index
\* `bar`, NaN where the series has no such index.  The returns series holds
\* bar k + 1 at position k.
Reindex(series, bar) ==
    IF (bar - 1) \in DOMAIN series /\ series[bar - 1].bar = bar
    THEN series[bar - 1].val
    ELSE NaN

---------------------------------------------------------------------------
(* Indicators.                                                             *)

\* The running totals of a series given as a function on lo..hi: the
\* rolling sums below add the bar entering the window and subtract the bar
\* leaving it, as the rolling aggregation does.
RECURSIVE CumSum(_, _, _, _)
CumSum(f, lo, hi, acc) ==
    IF lo > hi THEN acc
    ELSE CumSum(f, lo + 1, hi,
                Append(acc, (IF acc = <<>> THEN 0 ELSE acc[Len(acc)]) + f[lo]))

\* A variant of the rolling mean whose window ends one bar after the bar it
\* is reported at, wherever such a bar exists.
SMA_ahead(series, window) ==
    LET cs == CumSum(series, 1, Len(series), <<>>)
    IN  [i \in 1..Len(series) |->
            IF i < window THEN NaN
            ELSE LET e == Min(i + 1, Len(series))
                 IN  Rat(cs[e] - (IF e = window THEN 0 ELSE cs[e - window]), window)]

\* series.rolling(window).mean(): NaN until `window` observations exist.
SMA(series, window) ==
    LET cs == CumSum(series, 1, Len(series), <<>>)
    IN  [i \in 1..Len(series) |->
            IF i < window THEN NaN
            ELSE Rat(cs[i] - (IF i = window THEN 0 ELSE cs[i - window]), window)]

\* RSI = 100 - 100 / (1 + avg_gain / avg_loss) over `period` differences.
\* The first difference is NaN, so the rolling means are NaN up to bar
\* `period`; 0/0 is NaN, x/0 is +inf and gives 100.
RSI(series, period) ==
    LET delta == [i \in 2..Len(series) |-> series[i] - series[i - 1]]
        gain  == [i \in 2..Len(series) |-> Max(delta[i], 0)]
        loss  == [i \in 2..Len(series) |-> -Min(delta[i], 0)]
        \* cg[k], cl[k]: the gains and losses of bars 2..k+1
        cg    == CumSum(gain, 2, Len(series), <<>>)
        cl    == CumSum(loss, 2, Len(series), <<>>)
    IN  [i \in 1..Len(series) |->
            IF i < period + 1 THEN NaN
            ELSE LET G == cg[i - 1] - (IF i = period + 1 THEN 0 ELSE cg[i - 1 - period])
                     L == cl[i - 1] - (IF i = period + 1 THEN 0 ELSE cl[i - 1 - period])
                 IN  IF G = 0 /\ L = 0 THEN NaN
                     ELSE IF L = 0 THEN Int2Rat(100)
                     ELSE Rat(100 * G, G + L)]

---------------------------------------------------------------------------
(* Metrics.                                                                *)

AllEqual(s) ==
    \A i \in 2..Len(s) : s[i].num * s[1].den = s[1].num * s[i].den

\* The sign of ((m + 1) ** 252 - 1) - rf for a mean return m and rf >= 0,
\* with x = m + 1: |x| < 1 gives a negative value, |x| = 1 gives -rf, and
\* for |x| > 1 Bernoulli's bound x ** 252 - 1 >= 252 * (|x| - 1) decides
\* whenever it exceeds rf.
NumeratorSign(m, rf_) ==
    LET ax == Abs(m.num + m.den)
        d  == m.den
    IN  IF rf_ < 0 THEN "undetermined"
        ELSE IF ax < d THEN "neg"
        ELSE IF ax = d THEN (IF rf_ > 0 THEN "neg" ELSE "zero")
        ELSE IF TradingDays * (ax - d) * RfScale > rf_ * d THEN "pos"
        ELSE "undetermined"

\* numpy's float division x / 0.0: a signed infinity, NaN for 0 / 0; it
\* warns and does not raise.
DivideByZero(sign) ==
    CASE sign = "neg"  -> "-inf"
      [] sign = "pos"  -> "+inf"
      [] sign = "zero" -> "nan"
      [] OTHER         -> "inf_or_nan"

\* compute_metrics: mean of no value is NaN, the sample standard deviation
\* (ddof = 1) of fewer than two values is NaN and that of equal values is 0.
compute_metrics(algo_returns, rf_) ==
    LET a == SelectSeq(algo_returns, LAMBDA q : ~IsNaN(q))
        n == Len(a)
    IN  IF n = 0
        THEN [ann_return |-> "nan", std_dev |-> "nan", sharpe |-> "nan"]
        ELSE IF n = 1
        THEN [ann_return |-> "finite", std_dev |-> "nan", sharpe |-> "nan"]
        ELSE IF AllEqual(a)
        THEN [ann_return |-> "finite", std_dev |-> "zero",
              sharpe |-> DivideByZero(NumeratorSign(a[1], rf_))]
        ELSE [ann_return |-> "finite", std_dev |-> "positive",
              sharpe |-> "finite"]

---------------------------------------------------------------------------
(* What the seven strategy functions share.                                *)

\* df["Position"], df["Trade"], df["AlgoRet"] = df["Returns"] * df["Position"]
AddColumns(r, pos, trade) ==
    r @@ [Position |-> pos, Trade |-> trade,
          AlgoRet |-> Rat(r.Returns.num * pos, r.Returns.den)]

\* df["Position"].diff().abs().sum(): the first difference is NaN and is
\* skipped by sum().
PositionDiffAbsSum(df) ==
    SumRange([i \in 2..Len(df) |-> Abs(df[i].Position - df[i - 1].Position)],
             2, Len(df))

\* The dictionary a strategy function returns.
StrategyResult(name, df, trades, rf_) ==
    LET m == compute_metrics([i \in 1..Len(df) |-> df[i].AlgoRet], rf_)
    IN  [Strategy |-> name, Data |-> df,
         AnnualizedReturn |-> m.ann_return, StdDev |-> m.std_dev,
         SharpeRatio |-> m.sharpe, Trades |-> trades]

---------------------------------------------------------------------------
(* SMA strategies.                                                         *)

\* pd.DataFrame({Price, Returns, SMA_Fast, SMA_Slow}).dropna()
sma_frame(prices_, returns, fast, slow) ==
    LET sma_fast == SMA(prices_, fast)
        sma_slow == SMA(prices_, slow)
        raw == [i \in 1..Len(prices_) |->
                   [bar |-> i, Price |-> prices_[i],
                    Returns |-> Reindex(returns, i),
                    SMA_Fast |-> sma_fast[i], SMA_Slow |-> sma_slow[i]]]
    IN  SelectSeq(raw, LAMBDA r : ~IsNaN(r.Returns) /\ ~IsNaN(r.SMA_Fast)
                                  /\ ~IsNaN(r.SMA_Slow))

\* Mutant: the comparison made strict.
sma_long_only_position_strict(r) == IF GT(r.SMA_Fast, r.SMA_Slow) THEN 1 ELSE 0

sma_long_only_position(r) == IF GE(r.SMA_Fast, r.SMA_Slow) THEN 1 ELSE 0

sma_short_only_position(r) == IF LT(r.SMA_Fast, r.SMA_Slow) THEN -1 ELSE 0

sma_long_short_position(r) == IF GE(r.SMA_Fast, r.SMA_Slow) THEN 1 ELSE -1

sma_long_only(prices_, returns, fast, slow, rf_) ==
    LET df0 == sma_frame(prices_, returns, fast, slow)
        df  == [i \in 1..Len(df0) |->
                   LET p == sma_long_only_position(df0[i])
                   IN  AddColumns(df0[i], p, IF p = 1 THEN "Long" ELSE "Cash")]
    IN  StrategyResult("SMA Long-Only", df, Rat(PositionDiffAbsSum(df), 1), rf_)

sma_short_only(prices_, returns, fast, slow, rf_) ==
    LET df0 == sma_frame(prices_, returns, fast, slow)
        df  == [i \in 1..Len(df0) |->
                   LET p == sma_short_only_position(df0[i])
                   IN  AddColumns(df0[i], p, IF p = -1 THEN "Short" ELSE "Cash")]
    IN  StrategyResult("SMA Short-Only", df, Rat(PositionDiffAbsSum(df), 1), rf_)

sma_long_short(prices_, returns, fast, slow, rf_) ==
    LET df0 == sma_frame(prices_, returns, fast, slow)
        df  == [i \in 1..Len(df0) |->
                   LET p == sma_long_short_position(df0[i])
                   IN  AddColumns(df0[i], p, IF p = 1 THEN "Long" ELSE "Short")]
    IN  StrategyResult("SMA Long-Short", df, Rat(PositionDiffAbsSum(df), 2), rf_)

---------------------------------------------------------------------------
(* RSI strategies.                                                         *)

\* pd.DataFrame({Price, Returns, RSI}).dropna(): a bar whose RSI is NaN (no
\* price change in the whole period) is dropped like a warm-up bar.
rsi_frame(prices_, returns, period) ==
    LET rsi == RSI(prices_, period)
        raw == [i \in 1..Len(prices_) |->
                   [bar |-> i, Price |-> prices_[i],
                    Returns |-> Reindex(returns, i), RSI |-> rsi[i]]]
    IN  SelectSeq(raw, LAMBDA r : ~IsNaN(r.Returns) /\ ~IsNaN(r.RSI))

\* The body of each loop: the position of row i from its RSI and the
\* position of row i - 1.
\* Mutant: the long-short rule pasted into the long-only function.
rsi_long_only_position_pasted(rsi, oversold, overbought, prev) ==
    IF LE(rsi, Int2Rat(oversold)) THEN 1
    ELSE IF GE(rsi, Int2Rat(overbought)) THEN -1
    ELSE prev

\* Mutant: no carry-forward, a bar without a signal is flat.
rsi_long_only_position_nocarry(rsi, oversold, overbought, prev) ==
    IF LE(rsi, Int2Rat(oversold)) THEN 1
    ELSE IF GE(rsi, Int2Rat(overbought)) THEN 0
    ELSE 0

rsi_long_only_position(rsi, oversold, overbought, prev) ==
    IF LE(rsi, Int2Rat(oversold)) THEN 1
    ELSE IF GE(rsi, Int2Rat(overbought)) THEN 0
    ELSE prev

rsi_short_only_position(rsi, oversold, overbought, prev) ==
    IF GE(rsi, Int2Rat(overbought)) THEN -1
    ELSE IF LE(rsi, Int2Rat(oversold)) THEN 0
    ELSE prev

\* Mutant: no carry-forward, a bar without a signal is flat.
rsi_long_short_position_nocarry(rsi, oversold, overbought, prev) ==
    IF LE(rsi, Int2Rat(oversold)) THEN 1
    ELSE IF GE(rsi, Int2Rat(overbought)) THEN -1
    ELSE 0

rsi_long_short_position(rsi, oversold, overbought, prev) ==
    IF LE(rsi, Int2Rat(oversold)) THEN 1
    ELSE IF GE(rsi, Int2Rat(overbought)) THEN -1
    ELSE prev

\* df["Position"] = 0, then for i in range(1, len(df)): rows are numbered
\* from 1 here, so the loop runs over rows 2..Len(df).
RECURSIVE rsi_long_only_loop(_, _, _, _, _)
rsi_long_only_loop(df, oversold, overbought, i, pos) ==
    IF i > Len(df) THEN pos
    ELSE rsi_long_only_loop(df, oversold, overbought, i + 1,
            [pos EXCEPT ![i] = rsi_long_only_position(
                                   df[i].RSI, oversold, overbought, pos[i - 1])])

RECURSIVE rsi_short_only_loop(_, _, _, _, _)
rsi_short_only_loop(df, oversold, overbought, i, pos) ==
    IF i > Len(df) THEN pos
    ELSE rsi_short_only_loop(df, oversold, overbought, i + 1,
            [pos EXCEPT ![i] = rsi_short_only_position(
                                   df[i].RSI, oversold, overbought, pos[i - 1])])

RECURSIVE rsi_long_short_loop(_, _, _, _, _)
rsi_long_short_loop(df, oversold, overbought, i, pos) ==
    IF i > Len(df) THEN pos
    ELSE rsi_long_short_loop(df, oversold, overbought, i + 1,
            [pos EXCEPT ![i] = rsi_long_short_position(
                                   df[i].RSI, oversold, overbought, pos[i - 1])])

ZeroColumn(df) == [i \in 1..Len(df) |-> 0]

rsi_long_only(prices_, returns, period, oversold, overbought, rf_) ==
    LET df0 == rsi_frame(prices_, returns, period)
        pos == rsi_long_only_loop(df0, oversold, overbought, 2, ZeroColumn(df0))
        df  == [i \in 1..Len(df0) |->
                   AddColumns(df0[i], pos[i],
                              IF pos[i] = 1 THEN "Long" ELSE "Cash")]
    IN  StrategyResult("RSI Long-Only", df, Rat(PositionDiffAbsSum(df), 1), rf_)

rsi_short_only(prices_, returns, period, oversold, overbought, rf_) ==
    LET df0 == rsi_frame(prices_, returns, period)
        pos == rsi_short_only_loop(df0, oversold, overbought, 2, ZeroColumn(df0))
        df  == [i \in 1..Len(df0) |->
                   AddColumns(df0[i], pos[i],
                              IF pos[i] = -1 THEN "Short" ELSE "Cash")]
    IN  StrategyResult("RSI Short-Only", df, Rat(PositionDiffAbsSum(df), 1), rf_)

rsi_long_short(prices_, returns, period, oversold, overbought, rf_) ==
    LET df0 == rsi_frame(prices_, returns, period)
        pos == rsi_long_short_loop(df0, oversold, overbought, 2, ZeroColumn(df0))
        df  == [i \in 1..Len(df0) |->
                   AddColumns(df0[i], pos[i],
                              IF pos[i] = 1 THEN "Long"
                              ELSE IF pos[i] = -1 THEN "Short" ELSE "Neutral")]
    IN  StrategyResult("RSI Long-Short", df, Rat(PositionDiffAbsSum(df), 2), rf_)

---------------------------------------------------------------------------
(* Custom triple SMA.                                                      *)

\* pd.DataFrame({Price, Returns, SMA7, SMA14, SMA21}).dropna()
triple_frame(prices_, returns) ==
    LET sma7  == SMA(prices_, sma7_window)
        sma14 == SMA(prices_, sma14_window)
        sma21 == SMA(prices_, sma21_window)
        raw == [i \in 1..Len(prices_) |->
                   [bar |-> i, Price |-> prices_[i],
                    Returns |-> Reindex(returns, i),
                    SMA7 |-> sma7[i], SMA14 |-> sma14[i], SMA21 |-> sma21[i]]]
    IN  SelectSeq(raw, LAMBDA r : ~IsNaN(r.Returns) /\ ~IsNaN(r.SMA7)
                                  /\ ~IsNaN(r.SMA14) /\ ~IsNaN(r.SMA21))

\* The crossover conditions of row `cur`, whose previous row is `prv`.
sma7_cross_up_14(cur, prv) == GT(cur.SMA7, cur.SMA14) /\ LE(prv.SMA7, prv.SMA14)
sma7_cross_up_21(cur, prv) == GT(cur.SMA7, cur.SMA21) /\ LE(prv.SMA7, prv.SMA21)
sma14_cross_up_21(cur, prv) == GT(cur.SMA14, cur.SMA21) /\ LE(prv.SMA14, prv.SMA21)
sma14_cross_down_21(cur, prv) == LT(cur.SMA14, cur.SMA21) /\ GE(prv.SMA14, prv.SMA21)
both_below_21(cur) == LT(cur.SMA7, cur.SMA21) /\ LT(cur.SMA14, cur.SMA21)

\* A variant of the chain whose Entry branch drops the both_below_21 test.
custom_triple_sma_step_unguarded(cur, prv, prev_pos) ==
    IF sma7_cross_up_14(cur, prv)
    THEN [Position |-> 1, Signal |-> "Entry"]
    ELSE IF prev_pos = 1 /\ (sma7_cross_up_21(cur, prv) \/ sma14_cross_up_21(cur, prv))
    THEN [Position |-> 1, Signal |-> "Add"]
    ELSE IF sma14_cross_down_21(cur, prv)
    THEN [Position |-> 0, Signal |-> "Exit"]
    ELSE [Position |-> prev_pos, Signal |-> "Hold"]

\* The if / elif chain of the loop body: the Position and Signal of `cur`.
custom_triple_sma_step(cur, prv, prev_pos) ==
    IF both_below_21(cur) /\ sma7_cross_up_14(cur, prv)
    THEN [Position |-> 1, Signal |-> "Entry"]
    ELSE IF prev_pos = 1 /\ (sma7_cross_up_21(cur, prv) \/ sma14_cross_up_21(cur, prv))
    THEN [Position |-> 1, Signal |-> "Add"]
    ELSE IF sma14_cross_down_21(cur, prv)
    THEN [Position |-> 0, Signal |-> "Exit"]
    ELSE [Position |-> prev_pos, Signal |-> "Hold"]

\* df["Position"] = 0; df["Signal"] = "Hold"; for i in range(1, len(df)).
RECURSIVE custom_triple_sma_loop(_, _, _)
custom_triple_sma_loop(df, i, cols) ==
    IF i > Len(df) THEN cols
    ELSE custom_triple_sma_loop(df, i + 1,
            [cols EXCEPT ![i] = custom_triple_sma_step(
                                    df[i], df[i - 1], cols[i - 1].Position)])

\* (df["Signal"] == "Entry").sum()
EntryCount(df) == Cardinality({i \in 1..Len(df) : df[i].Signal = "Entry"})

custom_triple_sma(prices_, returns, rf_) ==
    LET df0  == triple_frame(prices_, returns)
        cols == custom_triple_sma_loop(df0, 2,
                    [i \in 1..Len(df0) |-> [Position |-> 0, Signal |-> "Hold"]])
        df   == [i \in 1..Len(df0) |->
                    AddColumns(df0[i] @@ [Signal |-> cols[i].Signal],
                               cols[i].Position,
                               IF cols[i].Position = 1 THEN "Long" ELSE "Cash")]
    IN  StrategyResult("Custom Triple SMA", df, Rat(EntryCount(df), 1), rf_)

---------------------------------------------------------------------------
(* The Algorithmic Trading page.                                           *)

\* The labels of the selectbox; the en dash of the RSI label is written "-".
StrategyGroups == {"SMA (7,14)", "RSI (14, 30-70)", "Custom Triple SMA"}

\* The number of bars of a price table that differ from both neighbours.
Singles(p) ==
    Cardinality({i \in 1..Len(p) : /\ (i = 1 \/ p[i] # p[i - 1])
                                   /\ (i = Len(p) \/ p[i] # p[i + 1])})

\* The start of a run of page script p.
Start(p) ==
    /\ pc = "fetch"
    /\ prices = <<>>
    /\ strategy_group = "none"
    /\ rf = 0
    /\ results = <<>>
    /\ page = p
    /\ panel = [table |-> "unfetched"]
    /\ calls = <<>>
    /\ shown = {}
    /\ scan = [fn |-> "none"]
    /\ env = <<>>

Init == Start("1_Algorithmic_Trading")

\* get_price_data: the table of closes the download returns, one run of
\* equal closes after the other.
get_price_data(level, n) ==
    /\ page = "1_Algorithmic_Trading"
    /\ pc = "fetch"
    /\ Len(prices) + n <= MaxBars
    /\ (n = 1 => Singles(prices) < MaxSingles)
    /\ (IF prices = <<>> THEN TRUE ELSE prices[Len(prices)] # level)
    /\ prices' = prices \o [i \in 1..n |-> level]
    /\ UNCHANGED <<pc, strategy_group, rf, results, page, panel, calls, shown, scan, env>>

\* if prices is None or prices.empty: st.error(...); st.stop()
StopNoData ==
    /\ page = "1_Algorithmic_Trading"
    /\ pc = "fetch"
    /\ prices = <<>>
    /\ shown' = shown \cup {"No price data available for the selected inputs."}
    /\ pc' = "stopped"
    /\ UNCHANGED <<prices, strategy_group, rf, results, page, panel, calls, scan, env>>

\* The strategy execution of the page: the strategies of the chosen group
\* with their default windows and thresholds and the sidebar's rf.
StrategyResults(group, table, rf_) ==
    LET returns == get_returns(table)
    IN  CASE group = "SMA (7,14)" ->
               << sma_long_only(table, returns, fast_default, slow_default, rf_),
                  sma_short_only(table, returns, fast_default, slow_default, rf_),
                  sma_long_short(table, returns, fast_default, slow_default, rf_) >>
          [] group = "RSI (14, 30-70)" ->
               << rsi_long_only(table, returns, period_default,
                                oversold_default, overbought_default, rf_),
                  rsi_short_only(table, returns, period_default,
                                 oversold_default, overbought_default, rf_),
                  rsi_long_short(table, returns, period_default,
                                 oversold_default, overbought_default, rf_) >>
          [] OTHER ->
               << custom_triple_sma(table, returns, rf_) >>

\* The functions the strategy execution calls, in order.
StrategyCalls(group) ==
    <<"get_returns">> \o
    CASE group = "SMA (7,14)" -> <<"sma_long_only", "sma_short_only", "sma_long_short">>
      [] group = "RSI (14, 30-70)" -> <<"rsi_long_only", "rsi_short_only", "rsi_long_short">>
      [] OTHER -> <<"custom_triple_sma">>

\* One run of the page on a non-empty table.
StrategyExecution(group, rf_in) ==
    /\ page = "1_Algorithmic_Trading"
    /\ pc = "fetch"
    /\ prices # <<>>
    /\ results' = StrategyResults(group, prices, rf_in)
    /\ strategy_group' = group
    /\ rf' = rf_in
    /\ calls' = calls \o StrategyCalls(group)
    /\ pc' = "done"
    /\ UNCHANGED <<prices, page, panel, shown, scan, env>>

Next ==
    \/ \E level \in Levels, n \in RunLens : get_price_data(level, n)
    \/ StopNoData
    \/ \E group \in StrategyGroups, rf_in \in RfChoices : StrategyExecution(group, rf_in)

Spec == Init /\ [][Next]_vars

---------------------------------------------------------------------------
(* The pages that work on a table of several tickers: what they share.     *)

Pages == {"1_Algorithmic_Trading", "2_Portfolio_Optimisation", "3_VAR_VECM",
          "4_GARCH_Volatility", "5_Distributed_Lag_Model"}

\* The largest number of rows of a fetched table.
MaxRows == 7
\* The largest number of organisations a page works on.
MaxInstruments == 3

\* What get_price_data may return: no table, or a table of 0..MaxRows rows.
PriceTables ==
    {[table |-> "None"]} \cup {[table |-> "DataFrame", rows |-> n] : n \in 0..MaxRows}

\* prices = get_price_data(tickers, start_date, end_date)
FetchPrices(table) ==
    /\ page # "1_Algorithmic_Trading"
    /\ pc = "fetch"
    /\ panel' = table
    /\ pc' = "check"
    /\ UNCHANGED <<trading, page, calls, shown, scan, env>>

\* A variant of the test that leaves out prices.empty.
NoPriceData_none_only(table) == table.table = "None"

\* prices is None or prices.empty
NoPriceData(table) ==
    IF table.table = "None" THEN TRUE ELSE table.rows = 0

\* The text of the st.error of page p.
NoDataMessage(p) ==
    IF p = "5_Distributed_Lag_Model" THEN "No data available."
    ELSE "No price data available for the selected inputs."

\* if prices is None or prices.empty: st.error(...); st.stop()
StopNoPrices ==
    /\ page # "1_Algorithmic_Trading"
    /\ pc = "check"
    /\ NoPriceData(panel)
    /\ shown' = shown \cup {NoDataMessage(page)}
    /\ pc' = "stopped"
    /\ UNCHANGED <<trading, page, panel, calls, scan, env>>

\* returns = get_returns(prices): pct_change() and dropna() leave one row
\* less than the table has.
ReturnRows(table) == table.rows - 1

---------------------------------------------------------------------------
(* The GARCH Volatility page.                                              *)

\* fit_garch(returns, p=1, q=1)
p_default == 1
q_default == 1

\* What fit_garch may do: return the fitted results, or raise from the
\* estimation of the arch library.
GarchOutcomes == {"results", "raised"}

\* returns = get_returns(prices); returns.columns = selected_banks, for the
\* banks of the sidebar (at least one).
GarchReturns(n_banks) ==
    /\ page = "4_GARCH_Volatility"
    /\ pc = "check"
    /\ ~NoPriceData(panel)
    /\ calls' = calls \o <<"get_returns">>
    /\ env' = [returns |-> ReturnRows(panel), banks |-> n_banks]
    /\ scan' = [fn |-> "garch_loop", i |-> 1, fits |-> <<>>]
    /\ pc' = "garch_loop"
    /\ UNCHANGED <<trading, page, panel, shown>>

\* if bank_returns.empty
NoBankReturns(rows) == rows = 0

\* One pass of `for tab, bank in zip(bank_tabs, returns.columns)`:
\* bank_returns = returns[bank].dropna(); the warning and continue, or
\* garch_results = fit_garch(bank_returns).
GarchModels(outcome) ==
    /\ page = "4_GARCH_Volatility"
    /\ pc = "garch_loop"
    /\ scan.i <= env.banks
    /\ IF NoBankReturns(env.returns)
       THEN /\ outcome = "results"
            /\ shown' = shown \cup {"Insufficient data for GARCH estimation."}
            /\ scan' = [scan EXCEPT !.i = scan.i + 1]
            /\ UNCHANGED <<calls, pc>>
       ELSE /\ calls' = calls \o <<"fit_garch">>
            /\ scan' = [scan EXCEPT
                          !.i = scan.i + 1,
                          !.fits = Append(scan.fits,
                              [bank |-> scan.i, nobs |-> env.returns, outcome |-> outcome])]
            /\ pc' = IF outcome = "raised" THEN "raised" ELSE pc
            /\ UNCHANGED shown
    /\ UNCHANGED <<trading, page, panel, env>>

\* The end of the loop: the interpretation and the navigation button.
GarchInterpretation ==
    /\ page = "4_GARCH_Volatility"
    /\ pc = "garch_loop"
    /\ scan.i > env.banks
    /\ pc' = "done"
    /\ UNCHANGED <<trading, page, panel, calls, shown, scan, env>>

NextGarch ==
    \/ \E table \in PriceTables : FetchPrices(table)
    \/ StopNoPrices
    \/ \E n_banks \in 1..MaxInstruments : GarchReturns(n_banks)
    \/ \E outcome \in GarchOutcomes : GarchModels(outcome)
    \/ GarchInterpretation

InitGarch == Start("4_GARCH_Volatility")

SpecGarch == InitGarch /\ [][NextGarch]_vars

---------------------------------------------------------------------------
(* The VAR / VECM page.                                                    *)

\* Trace statistics and 95% critical values of the Johansen test.
TraceValues == {10, 20, 30}
CritValues == {15, 20}
ModelTypes == {"VAR", "VECM"}

\* returns = get_returns(prices), with the sidebar's Model Type.
VarVecmReturns(model_type) ==
    /\ page = "3_VAR_VECM"
    /\ pc = "check"
    /\ ~NoPriceData(panel)
    /\ calls' = calls \o <<"get_returns">>
    /\ env' = [returns |-> ReturnRows(panel), model_type |-> model_type]
    /\ pc' = "model"
    /\ UNCHANGED <<trading, page, panel, shown, scan>>

\* if model_type == "VAR": var_results = fit_var(...)
VarModel ==
    /\ page = "3_VAR_VECM"
    /\ pc = "model"
    /\ env.model_type = "VAR"
    /\ calls' = calls \o <<"fit_var">>
    /\ pc' = "done"
    /\ UNCHANGED <<trading, page, panel, shown, scan, env>>

\* A variant of the rank that also counts a statistic equal to its critical
\* value.
coint_rank_inclusive(trace_stats, crit_95) ==
    Cardinality({r \in 1..Len(trace_stats) : trace_stats[r] >= crit_95[r]})

\* coint_rank = sum(trace_stats > crit_95)
coint_rank(trace_stats, crit_95) ==
    Cardinality({r \in 1..Len(trace_stats) : trace_stats[r] > crit_95[r]})

\* johansen_res = johansen_test(...); the table of the test; coint_rank; the
\* st.success with the estimated number of relations.
JohansenTest(trace_stats, crit_95) ==
    /\ page = "3_VAR_VECM"
    /\ pc = "model"
    /\ env.model_type = "VECM"
    /\ Len(trace_stats) = Len(crit_95)
    /\ calls' = calls \o <<"johansen_test">>
    /\ env' = [trace_stats |-> trace_stats, crit_95 |-> crit_95,
               coint_rank |-> coint_rank(trace_stats, crit_95)] @@ env
    /\ shown' = shown \cup {"Estimated Number of Cointegrating Relations (5% level)"}
    /\ pc' = "gate"
    /\ UNCHANGED <<trading, page, panel, scan>>

\* A variant of the test of the gate that never finds rank 0.
NoCointegration_never(rank) == rank < 0

\* if coint_rank == 0
NoCointegration(rank) == rank = 0

\* st.warning("No cointegration detected ..."); st.stop()
StopNoCointegration ==
    /\ page = "3_VAR_VECM"
    /\ pc = "gate"
    /\ NoCointegration(env.coint_rank)
    /\ shown' = shown \cup {"No cointegration detected at the 5% level. VECM may not be appropriate."}
    /\ pc' = "stopped"
    /\ UNCHANGED <<trading, page, panel, calls, scan, env>>

\* vecm_results = fit_vecm(returns, coint_rank=coint_rank, k_ar_diff=max_lags)
\* and the tables of beta and alpha, one column per cointegrating relation.
fit_vecm ==
    /\ page = "3_VAR_VECM"
    /\ pc = "gate"
    /\ ~NoCointegration(env.coint_rank)
    /\ calls' = calls \o <<"fit_vecm">>
    /\ env' = [vecm_results |-> [coint_rank |-> env.coint_rank],
               beta  |-> [i \in 1..env.coint_rank |-> "Cointegrating Vector"],
               alpha |-> [i \in 1..env.coint_rank |-> "ECM"]] @@ env
    /\ pc' = "done"
    /\ UNCHANGED <<trading, page, panel, shown, scan>>

\* The vectors of statistics of a test on n instruments.
Vectors(n, values) == [1..n -> values]

NextVarVecm ==
    \/ \E table \in PriceTables : FetchPrices(table)
    \/ StopNoPrices
    \/ \E model_type \in ModelTypes : VarVecmReturns(model_type)
    \/ VarModel
    \/ \E n \in 2..MaxInstruments :
          \E trace_stats \in Vectors(n, TraceValues), crit_95 \in Vectors(n, CritValues) :
              JohansenTest(trace_stats, crit_95)
    \/ StopNoCointegration
    \/ fit_vecm

InitVarVecm == Start("3_VAR_VECM")

SpecVarVecm == InitVarVecm /\ [][NextVarVecm]_vars

---------------------------------------------------------------------------
(* The Portfolio Optimisation page and src/models/portfolio.py.            *)
(*                                                                         *)
(* The convex solver is outside the repository: a solve is modelled by its *)
(* outcome, which is any of a vector of weights (w.value), no solution     *)
(* (w.value is None) or a raised SolverError.  Weights are in halves of    *)
(* the portfolio over two assets.  A Sharpe ratio (ret - rf) / vol is kept *)
(* exactly, as the pair of x = ret - rf and v = vol ** 2 in the units of   *)
(* the weights; a volatility is kept as the number under the square root.  *)

\* The number of grid points of max_sharpe_portfolio and efficient_frontier
\* (50 and 25 in the program).
n_targets == 3
n_portfolios == 2

\* The vectors of weights a solve may return, in halves.
WeightVectors == {<<2, 0>>, <<1, 1>>, <<0, 2>>}
WeightUnit(w) == w[1] + w[2]

\* The outcomes of problem.solve().
SolverOutcomes ==
    {[status |-> "SolverError", w |-> <<>>], [status |-> "None", w |-> <<>>]}
    \cup {[status |-> "value", w |-> w] : w \in WeightVectors}

\* The mean returns and covariance matrices of the return panel, and the
\* daily risk-free rates, in the same unit.
Markets ==
    {[mean_returns |-> <<1, 3>>, cov_matrix |-> <<<<c, 0>>, <<0, 9>>>>] : c \in {0, 1}}
RfDaily == {0, 2}

\* pd.Series(w.value, index=returns.columns): a vector of missing values
\* when w.value is None.
Series(value) ==
    IF value = <<>> THEN [kind |-> "missing", w |-> <<>>]
    ELSE [kind |-> "weights", w |-> value]

\* w @ mean_returns and w @ cov_matrix @ w, in the units of the weights.
Dot(w, mean_returns) == w[1] * mean_returns[1] + w[2] * mean_returns[2]
QuadForm(w, cov_matrix) ==
    w[1] * w[1] * cov_matrix[1][1] + w[1] * w[2] * (cov_matrix[1][2] + cov_matrix[2][1])
    + w[2] * w[2] * cov_matrix[2][2]

\* np.linspace(mean_returns.min(), mean_returns.max(), n)[k - 1]
linspace(mean_returns, n, k) ==
    LET lo == Min(mean_returns[1], mean_returns[2])
        hi == Max(mean_returns[1], mean_returns[2])
    IN  IF n = 1 THEN Rat(lo, 1) ELSE Rat(lo * (n - 1) + (k - 1) * (hi - lo), n - 1)

\* sharpe = (ret - rf) / vol if vol > 0 else -np.inf
MinusInf == [inf |-> TRUE, x |-> 0, v |-> 0]
sharpe_of(w, market, rf_) ==
    LET v == QuadForm(w, market.cov_matrix)
    IN  IF v > 0
        THEN [inf |-> FALSE, x |-> Dot(w, market.mean_returns) - WeightUnit(w) * rf_, v |-> v]
        ELSE MinusInf

\* a > b for two Sharpe ratios: x / sqrt(v) compared by sign and by square.
SharpeGT(a, b) ==
    IF a.inf THEN FALSE
    ELSE IF b.inf THEN TRUE
    ELSE IF a.x >= 0 /\ b.x < 0 THEN TRUE
    ELSE IF a.x < 0 /\ b.x >= 0 THEN FALSE
    ELSE IF a.x >= 0 THEN a.x * a.x * b.v > b.x * b.x * a.v
    ELSE a.x * a.x * b.v < b.x * b.x * a.v

\* returns = get_returns(prices), with the sidebar's rf / 252.
PortfolioReturns(market, rf_in) ==
    /\ page = "2_Portfolio_Optimisation"
    /\ pc = "check"
    /\ ~NoPriceData(panel)
    /\ calls' = calls \o <<"get_returns">>
    /\ env' = [returns |-> ReturnRows(panel), market |-> market, rf_daily |-> rf_in]
    /\ pc' = "min_variance"
    /\ UNCHANGED <<trading, page, panel, shown, scan>>

\* w_minvar = min_variance_portfolio(returns): one solve, no try, no test of
\* the status or of w.value.
min_variance_portfolio(outcome) ==
    /\ page = "2_Portfolio_Optimisation"
    /\ pc = "min_variance"
    /\ calls' = calls \o <<"min_variance_portfolio">>
    /\ scan' = [fn |-> "min_variance_portfolio", outcome |-> outcome]
    /\ IF outcome.status = "SolverError"
       THEN pc' = "raised" /\ UNCHANGED env
       ELSE pc' = "max_sharpe" /\ env' = [w_minvar |-> Series(outcome.w)] @@ env
    /\ UNCHANGED <<trading, page, panel, shown>>

\* best_sharpe = -np.inf; best_weights = None; the grid of targets.
max_sharpe_portfolio ==
    /\ page = "2_Portfolio_Optimisation"
    /\ pc = "max_sharpe"
    /\ calls' = calls \o <<"max_sharpe_portfolio">>
    /\ scan' = [fn |-> "max_sharpe_portfolio", k |-> 1, best_sharpe |-> MinusInf,
                best_weights |-> <<>>, solved |-> <<>>]
    /\ pc' = "max_sharpe_loop"
    /\ UNCHANGED <<trading, page, panel, shown, env>>

\* A variant of the loop body that also takes a point whose Sharpe ratio
\* equals the best one so far.
max_sharpe_step_or_equal(s, outcome, market, rf_) ==
    LET target == linspace(market.mean_returns, n_targets, s.k)
        sharpe == sharpe_of(outcome.w, market, rf_)
        better == outcome.status = "value" /\ ~SharpeGT(s.best_sharpe, sharpe)
    IN  [s EXCEPT !.k = s.k + 1,
                  !.solved = Append(s.solved, [target |-> target, value |-> outcome.w]),
                  !.best_sharpe = IF better THEN sharpe ELSE s.best_sharpe,
                  !.best_weights = IF better THEN outcome.w ELSE s.best_weights]

\* The body of `for target in target_returns` once the solve has returned:
\* if w.value is not None: ...; if sharpe > best_sharpe: ...
max_sharpe_step(s, outcome, market, rf_) ==
    LET target == linspace(market.mean_returns, n_targets, s.k)
        sharpe == sharpe_of(outcome.w, market, rf_)
        better == outcome.status = "value" /\ SharpeGT(sharpe, s.best_sharpe)
    IN  [s EXCEPT !.k = s.k + 1,
                  !.solved = Append(s.solved, [target |-> target, value |-> outcome.w]),
                  !.best_sharpe = IF better THEN sharpe ELSE s.best_sharpe,
                  !.best_weights = IF better THEN outcome.w ELSE s.best_weights]

\* One pass of the loop: problem.solve(solver=cp.SCS), which may raise.
MaxSharpeSolve(outcome) ==
    /\ page = "2_Portfolio_Optimisation"
    /\ pc = "max_sharpe_loop"
    /\ scan.k <= n_targets
    /\ IF outcome.status = "SolverError"
       THEN pc' = "raised" /\ UNCHANGED scan
       ELSE pc' = pc /\ scan' = max_sharpe_step(scan, outcome, env.market, env.rf_daily)
    /\ UNCHANGED <<trading, page, panel, calls, shown, env>>

\* return pd.Series(best_weights, index=returns.columns)
MaxSharpeReturn ==
    /\ page = "2_Portfolio_Optimisation"
    /\ pc = "max_sharpe_loop"
    /\ scan.k > n_targets
    /\ env' = [w_sharpe |-> Series(scan.best_weights)] @@ env
    /\ pc' = "random"
    /\ UNCHANGED <<trading, page, panel, calls, shown, scan>>

\* The weight plots and concentrations, then rand_ports = random_portfolios(...)
random_portfolios ==
    /\ page = "2_Portfolio_Optimisation"
    /\ pc = "random"
    /\ calls' = calls \o <<"random_portfolios">>
    /\ pc' = "frontier"
    /\ UNCHANGED <<trading, page, panel, shown, scan, env>>

\* weights_list = []; risks = []; rets = []; the grid of targets.
efficient_frontier ==
    /\ page = "2_Portfolio_Optimisation"
    /\ pc = "frontier"
    /\ calls' = calls \o <<"efficient_frontier">>
    /\ scan' = [fn |-> "efficient_frontier", k |-> 1, rows |-> <<>>, solved |-> <<>>]
    /\ pc' = "frontier_loop"
    /\ UNCHANGED <<trading, page, panel, shown, env>>

\* A variant of the loop body that records the target of every grid point.
efficient_frontier_step_padded(s, outcome, market) ==
    LET target == linspace(market.mean_returns, n_portfolios, s.k)
    IN  [s EXCEPT !.k = s.k + 1,
                  !.solved = Append(s.solved, [target |-> target, value |-> outcome.w]),
                  !.rows = Append(s.rows,
                                  [weights |-> outcome.w, Return |-> target,
                                   Risk |-> IF outcome.status = "value"
                                            THEN QuadForm(outcome.w, market.cov_matrix)
                                            ELSE 0])]

\* The body of `for target in target_returns` once the solve has returned:
\* if w.value is not None, one more entry of weights_list, risks and rets.
efficient_frontier_step(s, outcome, market) ==
    LET target == linspace(market.mean_returns, n_portfolios, s.k)
    IN  [s EXCEPT !.k = s.k + 1,
                  !.solved = Append(s.solved, [target |-> target, value |-> outcome.w]),
                  !.rows = IF outcome.status = "value"
                           THEN Append(s.rows,
                                       [weights |-> outcome.w, Return |-> target,
                                        Risk |-> QuadForm(outcome.w, market.cov_matrix)])
                           ELSE s.rows]

\* One pass of the loop: problem.solve(), which may raise.
EfficientFrontierSolve(outcome) ==
    /\ page = "2_Portfolio_Optimisation"
    /\ pc = "frontier_loop"
    /\ scan.k <= n_portfolios
    /\ IF outcome.status = "SolverError"
       THEN pc' = "raised" /\ UNCHANGED scan
       ELSE pc' = pc /\ scan' = efficient_frontier_step(scan, outcome, env.market)
    /\ UNCHANGED <<trading, page, panel, calls, shown, env>>

\* ef = pd.DataFrame(weights_list, ...); ef["Return"] = rets; ef["Risk"] = risks
EfficientFrontierReturn ==
    /\ page = "2_Portfolio_Optimisation"
    /\ pc = "frontier_loop"
    /\ scan.k > n_portfolios
    /\ env' = [ef |-> scan.rows] @@ env
    /\ pc' = "done"
    /\ UNCHANGED <<trading, page, panel, calls, shown, scan>>

NextPortfolio ==
    \/ \E table \in PriceTables : FetchPrices(table)
    \/ StopNoPrices
    \/ \E market \in Markets, rf_in \in RfDaily : PortfolioReturns(market, rf_in)
    \/ \E outcome \in SolverOutcomes : min_variance_portfolio(outcome)
    \/ max_sharpe_portfolio
    \/ \E outcome \in SolverOutcomes : MaxSharpeSolve(outcome)
    \/ MaxSharpeReturn
    \/ random_portfolios
    \/ efficient_frontier
    \/ \E outcome \in SolverOutcomes : EfficientFrontierSolve(outcome)
    \/ EfficientFrontierReturn

InitPortfolio == Start("2_Portfolio_Optimisation")

SpecPortfolio == InitPortfolio /\ [][NextPortfolio]_vars

---------------------------------------------------------------------------
(* The Distributed Lag Model page.                                         *)
(*                                                                         *)
(* The regressions are outside the repository: a fit is modelled by its    *)
(* residual sum of squares.  The F statistic is kept exactly; a division   *)
(* by zero gives an infinity or NaN as numpy's float division does (the    *)
(* sign of a zero is not kept).                                            *)

\* The largest number of independent banks and of lags (the slider's 10).
MaxIndep == 2
MaxLags == 2
\* Residual sums of squares of the unrestricted and the restricted model.
RssUnrestricted == {0, 80}
RssRestricted == {60, 80, 100}

\* A float: a fraction, an infinity of sign `num`, or NaN.
Fin(n, d) == IF d < 0 THEN [cls |-> "fin", num |-> -n, den |-> -d]
             ELSE [cls |-> "fin", num |-> n, den |-> d]
Sign(n) == IF n > 0 THEN 1 ELSE IF n < 0 THEN -1 ELSE 0
FloatDiv(x, y) ==
    IF x.cls = "nan" \/ y.cls = "nan" THEN [cls |-> "nan", num |-> 0, den |-> 0]
    ELSE IF x.cls = "inf"
    THEN IF y.cls = "inf" THEN [cls |-> "nan", num |-> 0, den |-> 0]
         ELSE [cls |-> "inf", num |-> IF y.num < 0 THEN -x.num ELSE x.num, den |-> 0]
    ELSE IF y.cls = "inf" THEN Fin(0, 1)
    ELSE IF y.num = 0
    THEN IF x.num = 0 THEN [cls |-> "nan", num |-> 0, den |-> 0]
         ELSE [cls |-> "inf", num |-> Sign(x.num), den |-> 0]
    ELSE Fin(x.num * y.den, x.den * y.num)

\* returns = get_returns(prices).dropna(), with the sidebar's independent
\* banks and number of lags.
DlmReturns(n_indep, max_lags) ==
    /\ page = "5_Distributed_Lag_Model"
    /\ pc = "check"
    /\ ~NoPriceData(panel)
    /\ calls' = calls \o <<"get_returns">>
    /\ env' = [returns |-> ReturnRows(panel), indep_banks |-> n_indep,
               max_lags |-> max_lags]
    /\ pc' = "unrestricted"
    /\ UNCHANGED <<trading, page, panel, shown, scan>>

\* The rows of pd.concat([y, lags], axis=1).dropna(): shift(lag) leaves the
\* first max_lags rows with a missing value.
LaggedRows(rows, max_lags) == Max(rows - max_lags, 0)

\* The columns of X_unres and of Y_lags, as pairs of a series and a lag: the
\* series 0 is y = returns[dep_bank], the series 1..n_indep are the
\* independent banks.  Both regressions add a constant.
X_unres(n_indep, max_lags) == {<<bank, lag>> : bank \in 1..n_indep, lag \in 1..max_lags}
Y_lags(max_lags) == {<<0, i>> : i \in 1..max_lags}

\* unrestricted_model = sm.OLS(Y_u, X_u).fit(); OLS raises on an empty frame.
UnrestrictedModel(RSS_u) ==
    /\ page = "5_Distributed_Lag_Model"
    /\ pc = "unrestricted"
    /\ LET nobs == LaggedRows(env.returns, env.max_lags)
       IN  IF nobs = 0
           THEN pc' = "raised" /\ UNCHANGED env
           ELSE /\ pc' = "restricted"
                /\ env' = [unrestricted_model |->
                              [ssr |-> RSS_u, nobs |-> nobs,
                               exog |-> X_unres(env.indep_banks, env.max_lags)]] @@ env
    /\ UNCHANGED <<trading, page, panel, calls, shown, scan>>

\* restricted_model = sm.OLS(Y_r, X_r).fit()
RestrictedModel(RSS_r) ==
    /\ page = "5_Distributed_Lag_Model"
    /\ pc = "restricted"
    /\ env' = [restricted_model |->
                  [ssr |-> RSS_r, nobs |-> LaggedRows(env.returns, env.max_lags),
                   exog |-> Y_lags(env.max_lags)]] @@ env
    /\ pc' = "f_test"
    /\ UNCHANGED <<trading, page, panel, calls, shown, scan>>

\* F_stat = ((RSS_r - RSS_u) / (k - len(indep_banks))) / (RSS_u / (n - k - 1))
F_stat(RSS_r, RSS_u, n, k, n_indep) ==
    FloatDiv(FloatDiv(Fin(RSS_r - RSS_u, 1), Fin(k - n_indep, 1)),
             FloatDiv(Fin(RSS_u, 1), Fin(n - k - 1, 1)))

\* The F test: n, k, F_stat and the degrees of freedom given to f.cdf.
FTest ==
    /\ page = "5_Distributed_Lag_Model"
    /\ pc = "f_test"
    /\ LET RSS_r == env.restricted_model.ssr
           RSS_u == env.unrestricted_model.ssr
           n     == env.unrestricted_model.nobs
           k     == env.indep_banks * env.max_lags
       IN  env' = [F_stat |-> F_stat(RSS_r, RSS_u, n, k, env.indep_banks),
                   dfn |-> k - env.indep_banks, dfd |-> n - k - 1] @@ env
    /\ pc' = "lag_structure"
    /\ UNCHANGED <<trading, page, panel, calls, shown, scan>>

\* The values of a lag coefficient of the unrestricted fit.
Betas == {-1, 1}

\* X_unres.columns: bank by bank, each bank's lags 1..max_lags in order.
X_unres_columns(n_indep, max_lags) ==
    [p \in 1..(n_indep * max_lags) |-> <<((p - 1) \div max_lags) + 1, ((p - 1) % max_lags) + 1>>]

\* The fits' vectors of coefficients without the constant, each labelled
\* with its column.
CoefSeries(n_indep, max_lags) ==
    {[p \in 1..(n_indep * max_lags) |->
         [name |-> X_unres_columns(n_indep, max_lags)[p], coef |-> values[p]]] :
       values \in [1..(n_indep * max_lags) -> Betas]}

\* coef_series.values.reshape(len(indep_banks), max_lags)
reshape(coef_series, n_indep, max_lags) ==
    [i \in 1..n_indep |-> [lag \in 1..max_lags |-> coef_series[(i - 1) * max_lags + lag].coef]]

\* lags = np.arange(1, max_lags + 1); coef_series; coef_matrix
LagStructure ==
    /\ page = "5_Distributed_Lag_Model"
    /\ pc = "lag_structure"
    /\ \E coef_series \in CoefSeries(env.indep_banks, env.max_lags) :
          scan' = [fn |-> "lag_structure", i |-> 1, coef_series |-> coef_series,
                   coef_matrix |-> reshape(coef_series, env.indep_banks, env.max_lags),
                   metrics |-> <<>>]
    /\ pc' = "lag_loop"
    /\ UNCHANGED <<trading, page, panel, calls, shown, env>>

\* mean_lag = lags.mean()
mean_lag(max_lags) == Rat(SumRange([lag \in 1..max_lags |-> lag], 1, max_lags), max_lags)

\* A variant of the weighted lag without the test of the sum.
weighted_lag_floor(betas, max_lags) ==
    Rat(SumRange([lag \in 1..max_lags |-> lag * betas[lag]], 1, max_lags),
        Max(SumRange(betas, 1, max_lags), 1))

\* np.sum(lags * betas) / np.sum(betas) if np.sum(betas) != 0 else np.nan
weighted_lag(betas, max_lags) ==
    IF SumRange(betas, 1, max_lags) # 0
    THEN Rat(SumRange([lag \in 1..max_lags |-> lag * betas[lag]], 1, max_lags),
             SumRange(betas, 1, max_lags))
    ELSE NaN

\* One pass of `for i, bank in enumerate(indep_banks)`: the two metrics shown
\* for the bank.
LagStructureStep ==
    /\ page = "5_Distributed_Lag_Model"
    /\ pc = "lag_loop"
    /\ scan.i <= env.indep_banks
    /\ scan' = [scan EXCEPT
                  !.i = scan.i + 1,
                  !.metrics = Append(scan.metrics,
                      [bank |-> scan.i,
                       mean_lag |-> mean_lag(env.max_lags),
                       weighted_lag |-> weighted_lag(scan.coef_matrix[scan.i], env.max_lags)])]
    /\ UNCHANGED <<trading, page, panel, calls, shown, env, pc>>

\* After the lag structure summary: var_results = fit_var(...) and the
\* comparison table.
DlmVsVar ==
    /\ page = "5_Distributed_Lag_Model"
    /\ pc = "lag_loop"
    /\ scan.i > env.indep_banks
    /\ calls' = calls \o <<"fit_var">>
    /\ pc' = "done"
    /\ UNCHANGED <<trading, page, panel, shown, scan, env>>

NextDlm ==
    \/ \E table \in PriceTables : FetchPrices(table)
    \/ StopNoPrices
    \/ \E n_indep \in 1..MaxIndep, max_lags \in 1..MaxLags : DlmReturns(n_indep, max_lags)
    \/ \E RSS_u \in RssUnrestricted : UnrestrictedModel(RSS_u)
    \/ \E RSS_r \in RssRestricted : RestrictedModel(RSS_r)
    \/ FTest
    \/ LagStructure
    \/ LagStructureStep
    \/ DlmVsVar

InitDlm == Start("5_Distributed_Lag_Model")

SpecDlm == InitDlm /\ [][NextDlm]_vars

---------------------------------------------------------------------------
(* get_returns on its own, for any series of positive prices.              *)

\* The longest series and the prices of an observation.
MaxLen == 4
PriceValues == {1, 2, 3, 5}
PriceSeries == UNION {[1..n -> PriceValues] : n \in 0..MaxLen}

InitReturns ==
    /\ pc = "call"
    /\ page = "data_loader"
    /\ prices \in PriceSeries
    /\ strategy_group = "none"
    /\ rf = 0
    /\ results = <<>>
    /\ panel = [table |-> "unfetched"]
    /\ calls = <<>>
    /\ shown = {}
    /\ scan = [fn |-> "none"]
    /\ env = <<>>

\* returns = get_returns(price_data), log_returns left at its default.
GetReturns ==
    /\ page = "data_loader"
    /\ pc = "call"
    /\ env' = [returns |-> get_returns(prices)]
    /\ calls' = calls \o <<"get_returns">>
    /\ pc' = "returned"
    /\ UNCHANGED <<trading, page, panel, shown, scan>>

NextReturns == GetReturns

SpecReturns == InitReturns /\ [][NextReturns]_vars

---------------------------------------------------------------------------
(* The session: the Home page (src/app.py), the navigation between the     *)
(* pages and what each page takes from st.session_state.                   *)
(*                                                                         *)
(* Here env is st.session_state (banks, mode) and scan holds the locals of *)
(* the page that runs: how it was opened, the banks it works on, the       *)
(* columns of the fetched table and the labels given to them.              *)

\* Three of the companies of BANK_TICKERS, with their tickers.
Banks == {"HDFC Bank", "ICICI Bank", "State Bank of India"}
BANK_TICKERS ==
    [b \in Banks |->
        CASE b = "HDFC Bank" -> "HDFCBANK.NS"
          [] b = "ICICI Bank" -> "ICICIBANK.NS"
          [] OTHER -> "SBIN.NS"]

\* The values of a multiselect: the chosen options in the order of choice.
Range(s) == {s[i] : i \in 1..Len(s)}
Selections ==
    {s \in UNION {[1..n -> Banks] : n \in 0..Cardinality(Banks)} :
        Cardinality(Range(s)) = Len(s)}
\* The column orders the download may return for a list of tickers.
ColumnOrders(tickers) ==
    {c \in [1..Len(tickers) -> Range(tickers)] : Range(c) = Range(tickers)}

\* The first run of app.py: st.session_state.banks = [], mode = None.
InitSession ==
    /\ pc = "idle"
    /\ page = "app"
    /\ env = [banks |-> <<>>, mode |-> "None"]
    /\ scan = [fn |-> "none"]
    /\ prices = <<>>
    /\ strategy_group = "none"
    /\ rf = 0
    /\ results = <<>>
    /\ panel = [table |-> "unfetched"]
    /\ calls = <<>>
    /\ shown = {}

\* selected_banks = st.multiselect(...); st.session_state.banks = selected_banks
SelectCompanies(selected_banks) ==
    /\ page = "app"
    /\ pc = "idle"
    /\ env' = [env EXCEPT !.banks = selected_banks]
    /\ shown' = {}
    /\ UNCHANGED <<trading, page, panel, calls, scan, pc>>

\* The body of an objective button of the Home page: the test of the
\* selection `refuse`, then either the warning or the mode and st.switch_page.
Objective(refuse, warning, mode, target) ==
    /\ IF refuse
       THEN /\ shown' = {warning}
            /\ UNCHANGED <<page, pc, env, scan>>
       ELSE /\ env' = [env EXCEPT !.mode = mode]
            /\ page' = target
            /\ pc' = "enter"
            /\ scan' = [fn |-> "page", via |-> "app"]
            /\ shown' = {}
    /\ UNCHANGED <<trading, panel, calls>>

\* if st.button("Go to Portfolio Optimisation")
GoToPortfolioOptimisation ==
    /\ page = "app"
    /\ pc = "idle"
    /\ Objective(env.banks = <<>>, "Please select at least one Org.",
              "long_term", "2_Portfolio_Optimisation")

\* if st.button("Go to Trading")
GoToTrading ==
    /\ page = "app"
    /\ pc = "idle"
    /\ Objective(env.banks = <<>>, "Please select at least one Org.",
              "trading", "4_GARCH_Volatility")

\* if st.button("Go to Advanced Analysis")
GoToAdvancedAnalysis ==
    /\ page = "app"
    /\ pc = "idle"
    /\ Objective(Len(env.banks) < 2, "Please select at least two Orgs.",
              "advanced", "3_VAR_VECM")

\* A page opened from the list of pages of the sidebar instead of by a
\* button: the session state is untouched.
OpenPage(target) ==
    /\ page # target
    /\ pc # "enter"
    /\ page' = target
    /\ pc' = IF target = "app" THEN "idle" ELSE "enter"
    /\ scan' = IF target = "app" THEN [fn |-> "none"] ELSE [fn |-> "page", via |-> "sidebar"]
    /\ shown' = {}
    /\ UNCHANGED <<trading, panel, calls, env>>

\* A page stopping at its access control or at an empty sidebar selection.
StopWith(warning) ==
    /\ shown' = {warning}
    /\ pc' = "stopped"
    /\ UNCHANGED <<scan, env>>

\* The banks the page goes on with.
GoOnWith(selected_banks) ==
    /\ scan' = [selected_banks |-> selected_banks] @@ scan
    /\ pc' = "selected"
    /\ UNCHANGED <<shown, env>>

\* Portfolio Optimisation: access control, then the page's own multiselect
\* of banks, which st.session_state.banks only pre-fills.
PortfolioBanks(portfolio_banks) ==
    /\ page = "2_Portfolio_Optimisation"
    /\ pc = "enter"
    /\ IF env.banks = <<>>
       THEN StopWith("Please select the organisations from the Home page.")
       ELSE IF Len(env.banks) < 2
       THEN StopWith("Please select at least two Orgs for portfolio optimisation.")
       ELSE IF Len(portfolio_banks) < 2
       THEN StopWith("Select at least two Orgs.")
       ELSE GoOnWith(portfolio_banks)
    /\ UNCHANGED <<trading, page, panel, calls>>

\* VAR / VECM: access control, selected_banks = st.session_state.banks.
VarVecmBanks ==
    /\ page = "3_VAR_VECM"
    /\ pc = "enter"
    /\ IF env.banks = <<>>
       THEN StopWith("Please select the organisations from the Home page.")
       ELSE IF Len(env.banks) < 2
       THEN StopWith("VAR / VECM requires at least two organisations.")
       ELSE GoOnWith(env.banks)
    /\ UNCHANGED <<trading, page, panel, calls>>

\* GARCH: access control, the sidebar's multiselect, and
\* st.session_state.banks = selected_banks_sidebar.
GarchBanks(selected_banks_sidebar) ==
    /\ page = "4_GARCH_Volatility"
    /\ pc = "enter"
    /\ IF env.banks = <<>>
       THEN StopWith("Please select banks from the Home page.")
       ELSE IF selected_banks_sidebar = <<>>
       THEN StopWith("Please select at least one bank.")
       ELSE /\ env' = [env EXCEPT !.banks = selected_banks_sidebar]
            /\ scan' = [selected_banks |-> selected_banks_sidebar] @@ scan
            /\ pc' = "selected"
            /\ UNCHANGED shown
    /\ UNCHANGED <<trading, page, panel, calls>>

\* Distributed Lag Model: access control, dep_bank and indep_banks chosen
\* among st.session_state.banks; the page works on [dep_bank] + indep_banks.
DlmBanks(dep_bank, indep_banks) ==
    /\ page = "5_Distributed_Lag_Model"
    /\ pc = "enter"
    /\ IF Len(env.banks) < 2
       THEN /\ dep_bank = "HDFC Bank" /\ indep_banks = <<>>
            /\ StopWith("Please select at least two banks from the Home page.")
       ELSE /\ dep_bank \in Range(env.banks)
            /\ Range(indep_banks) \subseteq Range(env.banks) \ {dep_bank}
            /\ IF indep_banks = <<>>
               THEN StopWith("Please select at least one independent bank.")
               ELSE GoOnWith(<<dep_bank>> \o indep_banks)
    /\ UNCHANGED <<trading, page, panel, calls>>

\* Algorithmic Trading: bank = st.sidebar.selectbox("Select Bank", ...) over
\* the page's own BANK_TICKERS; the page does not read st.session_state.
TradingBank(bank) ==
    /\ page = "1_Algorithmic_Trading"
    /\ pc = "enter"
    /\ GoOnWith(<<bank>>)
    /\ UNCHANGED <<trading, page, panel, calls>>

\* tickers = [BANK_TICKERS[b] for b in selected_banks]
Tickers(selected_banks) == [i \in 1..Len(selected_banks) |-> BANK_TICKERS[selected_banks[i]]]

\* returns.columns = selected_banks
relabel(columns, selected_banks) == selected_banks

\* prices = get_price_data(tickers, ...); returns = get_returns(prices);
\* returns.columns = selected_banks, and the analysis of the page.
AnalyseBanks(columns) ==
    /\ page # "app"
    /\ pc = "selected"
    /\ columns \in ColumnOrders(Tickers(scan.selected_banks))
    /\ scan' = [columns |-> columns,
                labels |-> relabel(columns, scan.selected_banks)] @@ scan
    /\ pc' = "analysed"
    /\ UNCHANGED <<trading, page, panel, calls, shown, env>>

\* if st.button("Continue to Algorithmic Trading"):
\*     st.switch_page("pages/1_Algorithmic_Trading.py")
ContinueToAlgorithmicTrading ==
    /\ page = "4_GARCH_Volatility"
    /\ pc = "analysed"
    /\ page' = "1_Algorithmic_Trading"
    /\ pc' = "enter"
    /\ scan' = [fn |-> "page", via |-> "4_GARCH_Volatility"]
    /\ shown' = {}
    /\ UNCHANGED <<trading, panel, calls, env>>

NextSession ==
    \/ \E selected_banks \in Selections : SelectCompanies(selected_banks)
    \/ GoToPortfolioOptimisation
    \/ GoToTrading
    \/ GoToAdvancedAnalysis
    \/ \E target \in Pages \cup {"app"} : OpenPage(target)
    \/ \E portfolio_banks \in Selections : PortfolioBanks(portfolio_banks)
    \/ VarVecmBanks
    \/ \E selected_banks_sidebar \in Selections : GarchBanks(selected_banks_sidebar)
    \/ \E dep_bank \in Banks, indep_banks \in Selections : DlmBanks(dep_bank, indep_banks)
    \/ \E bank \in Banks : TradingBank(bank)
    \/ \E columns \in UNION {ColumnOrders(Tickers(s)) : s \in Selections} : AnalyseBanks(columns)
    \/ ContinueToAlgorithmicTrading

SpecSession == InitSession /\ [][NextSession]_vars

---------------------------------------------------------------------------
(* The five pages together.                                                *)

\* The longest table of the Algorithmic Trading page here; its strategies
\* on longer tables are the matter of Spec.
PagesBars == 16

InitPages == \E p \in Pages : Start(p)

NextPages ==
    \/ \E level \in Levels, n \in RunLens :
          Len(prices) + n <= PagesBars /\ get_price_data(level, n)
    \/ StopNoData
    \/ \E group \in StrategyGroups, rf_in \in RfChoices : StrategyExecution(group, rf_in)
    \/ NextPortfolio
    \/ NextVarVecm
    \/ NextGarch
    \/ NextDlm

SpecPages == InitPages /\ [][NextPages]_vars

---------------------------------------------------------------------------
(* Vocabulary of the properties.                                           *)

LongOnlyStrategies == {"SMA Long-Only", "RSI Long-Only", "Custom Triple SMA"}
ShortOnlyStrategies == {"SMA Short-Only", "RSI Short-Only"}
LongShortStrategies == {"SMA Long-Short", "RSI Long-Short"}

\* The decision tables of the strategies named `name` in the results list.
Tables(name) ==
    {results[j].Data : j \in {k \in 1..Len(results) : results[k].Strategy = name}}

\* Some row of table d holds position p.
Holds(d, p) == \E i \in 1..Len(d) : d[i].Position = p

\* x <= n and x >= n for a rational x that is not NaN and an integer n,
\* written out on the fraction.
AtMost(x, n) == x.num <= n * x.den
AtLeast(x, n) == x.num >= n * x.den
\* x >= y and x > y for rationals that are not NaN.
NotBelow(x, y) == x.num * y.den >= y.num * x.den
Above(x, y) == x.num * y.den > y.num * x.den

---------------------------------------------------------------------------
(* C1.  For all strategies the position of every row of the decision table *)
(* is -1, 0 or 1; the long-only strategies never hold -1 and the           *)
(* short-only strategies never hold +1.                                    *)
C1_PositionRange ==
    \A j \in 1..Len(results) :
        \A i \in 1..Len(results[j].Data) :
            LET p    == results[j].Data[i].Position
                name == results[j].Strategy
            IN  /\ p \in {-1, 0, 1}
                /\ name \in LongOnlyStrategies => p # -1
                /\ name \in ShortOnlyStrategies => p # 1

\* A run of the RSI group in which the long-only table holds a long bar, the
\* short-only table a short bar and the long-short table both.
C1_Witness ==
    /\ pc = "done"
    /\ strategy_group = "RSI (14, 30-70)"
    /\ \E d \in Tables("RSI Long-Only") : Holds(d, 1) /\ Holds(d, 0)
    /\ \E d \in Tables("RSI Short-Only") : Holds(d, -1) /\ Holds(d, 0)
    /\ \E d \in Tables("RSI Long-Short") : Holds(d, 1) /\ Holds(d, -1)

---------------------------------------------------------------------------
(* C2.  rsi_long_only: the first valid bar is flat; every later valid bar  *)
(* is long when its RSI is at most the oversold threshold, flat when its   *)
(* RSI is at least the overbought threshold, and otherwise keeps the       *)
(* position of the valid bar before it.                                    *)
C2_RsiLongOnlyRule ==
    \A d \in Tables("RSI Long-Only") :
        /\ Len(d) >= 1 => d[1].Position = 0
        /\ \A i \in 2..Len(d) :
              d[i].Position =
                  IF AtMost(d[i].RSI, oversold_default) THEN 1
                  ELSE IF AtLeast(d[i].RSI, overbought_default) THEN 0
                  ELSE d[i - 1].Position

\* A long position entered on an oversold bar, carried over a bar between
\* the thresholds, and left on an overbought bar.
C2_Witness ==
    /\ pc = "done"
    /\ \E d \in Tables("RSI Long-Only") :
          /\ \E i \in 2..Len(d) :
                /\ ~AtMost(d[i].RSI, oversold_default)
                /\ ~AtLeast(d[i].RSI, overbought_default)
                /\ d[i].Position = 1
          /\ \E i \in 2..Len(d) :
                /\ AtLeast(d[i].RSI, overbought_default)
                /\ d[i - 1].Position = 1
                /\ d[i].Position = 0

---------------------------------------------------------------------------
(* C3.  rsi_short_only is short when the RSI is at least the overbought    *)
(* threshold, flat when it is at most the oversold threshold and otherwise *)
(* keeps the previous position; rsi_long_short is long when the RSI is at  *)
(* most the oversold threshold, short when it is at least the overbought   *)
(* threshold and otherwise keeps the previous position; both are flat on   *)
(* the first valid bar.                                                    *)
C3_RsiShortAndLongShortRule ==
    /\ \A d \in Tables("RSI Short-Only") :
          /\ Len(d) >= 1 => d[1].Position = 0
          /\ \A i \in 2..Len(d) :
                d[i].Position =
                    IF AtLeast(d[i].RSI, overbought_default) THEN -1
                    ELSE IF AtMost(d[i].RSI, oversold_default) THEN 0
                    ELSE d[i - 1].Position
    /\ \A d \in Tables("RSI Long-Short") :
          /\ Len(d) >= 1 => d[1].Position = 0
          /\ \A i \in 2..Len(d) :
                d[i].Position =
                    IF AtMost(d[i].RSI, oversold_default) THEN 1
                    ELSE IF AtLeast(d[i].RSI, overbought_default) THEN -1
                    ELSE d[i - 1].Position

\* Both tables carry a position over a bar between the thresholds, and the
\* long-short table flips from long to short.
C3_Witness ==
    /\ pc = "done"
    /\ \E d \in Tables("RSI Short-Only") :
          \E i \in 2..Len(d) :
              /\ ~AtMost(d[i].RSI, oversold_default)
              /\ ~AtLeast(d[i].RSI, overbought_default)
              /\ d[i].Position = -1
    /\ \E d \in Tables("RSI Long-Short") :
          /\ \E i \in 2..Len(d) :
                /\ ~AtMost(d[i].RSI, oversold_default)
                /\ ~AtLeast(d[i].RSI, overbought_default)
                /\ d[i].Position = 1
          /\ \E i \in 2..Len(d) : d[i - 1].Position = 1 /\ d[i].Position = -1

---------------------------------------------------------------------------
(* C4.  As stated: custom_triple_sma goes from flat at bar i-1 to long at  *)
(* bar i exactly when SMA7 > SMA14 > SMA21 at bar i.                       *)
C4_EntryOnAlignment ==
    \A d \in Tables("Custom Triple SMA") :
        \A i \in 2..Len(d) :
            d[i - 1].Position = 0 =>
                (d[i].Position = 1 <=>
                    (Above(d[i].SMA7, d[i].SMA14) /\ Above(d[i].SMA14, d[i].SMA21)))

(* C4, amended.  custom_triple_sma goes from flat at bar i-1 to long at    *)
(* bar i exactly when at bar i SMA7 and SMA14 are both below SMA21 and     *)
(* SMA7 crosses above SMA14 (SMA7 > SMA14 at bar i, SMA7 <= SMA14 at bar   *)
(* i-1).                                                                   *)
C4_EntryOnCrossBelowSlow ==
    \A d \in Tables("Custom Triple SMA") :
        \A i \in 2..Len(d) :
            d[i - 1].Position = 0 =>
                (d[i].Position = 1 <=>
                    /\ Above(d[i].SMA21, d[i].SMA7)
                    /\ Above(d[i].SMA21, d[i].SMA14)
                    /\ Above(d[i].SMA7, d[i].SMA14)
                    /\ NotBelow(d[i - 1].SMA14, d[i - 1].SMA7))

\* A table with a Flat -> Long transition, on a bar whose averages are not
\* aligned fast > mid > slow.
C4_Witness ==
    /\ pc = "done"
    /\ \E d \in Tables("Custom Triple SMA") :
          \E i \in 2..Len(d) :
              /\ d[i - 1].Position = 0
              /\ d[i].Position = 1
              /\ d[i].Signal = "Entry"
              /\ Above(d[i].SMA21, d[i].SMA14)

---------------------------------------------------------------------------
(* C5.  custom_triple_sma, when long at bar i-1, is flat at bar i if SMA14 *)
(* crosses below SMA21 there (SMA14 < SMA21 at bar i, SMA14 >= SMA21 at    *)
(* bar i-1) and is long at bar i in every other case.                      *)
C5_ExitWheneverLongAndCrossDown ==
    \A d \in Tables("Custom Triple SMA") :
        \A i \in 2..Len(d) :
            d[i - 1].Position = 1 =>
                d[i].Position =
                    IF /\ Above(d[i].SMA21, d[i].SMA14)
                       /\ NotBelow(d[i - 1].SMA14, d[i - 1].SMA21)
                    THEN 0 ELSE 1

---------------------------------------------------------------------------
(* C6.  At every valid bar sma_long_only is long when the fast SMA is at   *)
(* least the slow SMA and flat otherwise, sma_short_only is short when the *)
(* fast SMA is below the slow SMA and flat otherwise, and sma_long_short   *)
(* is long when fast >= slow and short otherwise, never flat: the position *)
(* is a function of the bar's own two averages.                            *)
C6_SmaRulesStateless ==
    /\ \A d \in Tables("SMA Long-Only") :
          \A i \in 1..Len(d) :
              d[i].Position = IF NotBelow(d[i].SMA_Fast, d[i].SMA_Slow) THEN 1 ELSE 0
    /\ \A d \in Tables("SMA Short-Only") :
          \A i \in 1..Len(d) :
              d[i].Position = IF Above(d[i].SMA_Slow, d[i].SMA_Fast) THEN -1 ELSE 0
    /\ \A d \in Tables("SMA Long-Short") :
          \A i \in 1..Len(d) :
              /\ d[i].Position = IF NotBelow(d[i].SMA_Fast, d[i].SMA_Slow) THEN 1 ELSE -1
              /\ d[i].Position # 0

\* A run of the SMA group with a bar whose two averages are equal (long), a
\* bar with the fast average below (flat, short, short) and one with it above.
C6_Witness ==
    /\ pc = "done"
    /\ strategy_group = "SMA (7,14)"
    /\ \E d \in Tables("SMA Long-Only") :
          /\ \E i \in 1..Len(d) :
                /\ d[i].SMA_Fast.num * d[i].SMA_Slow.den
                       = d[i].SMA_Slow.num * d[i].SMA_Fast.den
                /\ d[i].Position = 1
          /\ \E i \in 1..Len(d) : Above(d[i].SMA_Fast, d[i].SMA_Slow)
          /\ Holds(d, 0)
    /\ \E d \in Tables("SMA Short-Only") : Holds(d, -1) /\ Holds(d, 0)
    /\ \E d \in Tables("SMA Long-Short") : Holds(d, -1) /\ Holds(d, 1)

---------------------------------------------------------------------------
(* C7.  For every strategy the reported Trades value is the sum of         *)
(* |position[i] - position[i-1]| over the consecutive valid bars, halved   *)
(* for the long-short strategies.                                          *)
Changes(d) ==
    Cardinality({i \in 2..Len(d) : Abs(d[i].Position - d[i - 1].Position) >= 1})
    + Cardinality({i \in 2..Len(d) : Abs(d[i].Position - d[i - 1].Position) >= 2})

C7_TradesArePositionChanges ==
    \A j \in 1..Len(results) :
        LET r == results[j]
            halves == IF r.Strategy \in LongShortStrategies THEN 2 ELSE 1
        IN  r.Trades.num * halves = Changes(r.Data) * r.Trades.den

---------------------------------------------------------------------------
(* C8.  On the same prices the long-short strategy of a group reports at   *)
(* most as many trades as the group's long-only strategy.                  *)
TradesOf(name) == {results[j].Trades : j \in {k \in 1..Len(results) : results[k].Strategy = name}}

C8_LongShortTradesAtMostLongOnly ==
    /\ \A ls \in TradesOf("SMA Long-Short"), lo \in TradesOf("SMA Long-Only") :
          NotBelow(lo, ls)
    /\ \A ls \in TradesOf("RSI Long-Short"), lo \in TradesOf("RSI Long-Only") :
          NotBelow(lo, ls)

---------------------------------------------------------------------------
(* C9.  In every decision table AlgoRet is Returns times Position, and the *)
(* position of a bar is decided from the bars up to it: the same strategy  *)
(* run on the prices without their last bar, or without their last run of  *)
(* equal closes, has the same valid bars up to the cut and holds the same  *)
(* position on each of them.                                               *)
LastRunStart(p) ==
    CHOOSE i \in 1..Len(p) :
        /\ i = 1 \/ p[i] # p[i - 1]
        /\ \A k \in (i + 1)..Len(p) : p[k] = p[i]

Cuts(p) == {Len(p) - 1, LastRunStart(p) - 1} \ {0}

\* The valid bars of table d up to bar k, each with its position.
Decisions(d, k) ==
    {<<d[i].bar, d[i].Position>> : i \in {x \in 1..Len(d) : d[x].bar <= k}}

C9_NoLookAhead ==
    pc = "done" =>
        /\ \A j \in 1..Len(results) :
              \A i \in 1..Len(results[j].Data) :
                  LET row == results[j].Data[i]
                  IN  row.AlgoRet.num * row.Returns.den
                          = row.Returns.num * row.Position * row.AlgoRet.den
        /\ \A k \in Cuts(prices) :
              \A earlier \in {StrategyResults(strategy_group, SubSeq(prices, 1, k), rf)} :
                  \A j \in 1..Len(results) :
                      Decisions(results[j].Data, k) = Decisions(earlier[j].Data, k)

\* A table whose last bar changes the position, with nonzero returns earned
\* in a position, and with valid bars before the bar that was cut.
C9_Witness ==
    /\ pc = "done"
    /\ \E j \in 1..Len(results) :
          LET d == results[j].Data
          IN  /\ Len(d) >= 3
              /\ d[Len(d)].bar = Len(prices)
              /\ d[Len(d)].Position # d[Len(d) - 1].Position
              /\ \E i \in 1..Len(d) : d[i].Position # 0 /\ d[i].AlgoRet.num # 0

---------------------------------------------------------------------------
(* C10.  Whenever the standard deviation of a strategy's returns is zero,  *)
(* the Sharpe ratio that compute_metrics returns is NaN.                   *)
C10_ZeroVolatilitySharpeIsNaN ==
    \A j \in 1..Len(results) :
        results[j].StdDev = "zero" => results[j].SharpeRatio = "nan"

---------------------------------------------------------------------------
(* C11.  A strategy called on fewer observations than its slowest window   *)
(* (the slow SMA window, the RSI period, the 21-bar SMA) does not return a *)
(* normal-looking result: never Trades = 0 with an empty decision table.   *)
MinObservations(name) ==
    CASE name \in {"SMA Long-Only", "SMA Short-Only", "SMA Long-Short"} -> slow_default
      [] name \in {"RSI Long-Only", "RSI Short-Only", "RSI Long-Short"} -> period_default
      [] OTHER -> sma21_window

C11_InsufficientDataIsReported ==
    \A j \in 1..Len(results) :
        Len(prices) < MinObservations(results[j].Strategy) =>
            ~ /\ results[j].Data = <<>>
              /\ results[j].Trades.num = 0
              /\ results[j].Trades.den # 0

---------------------------------------------------------------------------
(* C12.  On every page, once the fetch has returned no table or an empty   *)
(* table the run has reported the condition and stopped, and no function   *)
(* of utils or models has been called and no result has been bound.        *)
NoTable == IF panel.table = "DataFrame" THEN panel.rows = 0 ELSE panel.table = "None"

C12_NoDataStopsThePage ==
    /\ (page = "1_Algorithmic_Trading" /\ pc # "fetch" /\ prices = <<>>) =>
          /\ pc = "stopped"
          /\ "No price data available for the selected inputs." \in shown
          /\ calls = <<>>
          /\ results = <<>>
    /\ (page # "1_Algorithmic_Trading" /\ NoTable /\ pc # "check") =>
          /\ pc = "stopped"
          /\ (IF page = "5_Distributed_Lag_Model" THEN "No data available."
              ELSE "No price data available for the selected inputs.") \in shown
          /\ calls = <<>>
          /\ env = <<>>
          /\ scan = [fn |-> "none"]

\* The Distributed Lag Model page stopped on an empty table.
C12_Witness ==
    /\ page = "5_Distributed_Lag_Model"
    /\ panel.table = "DataFrame"
    /\ panel.rows = 0
    /\ pc = "stopped"
    /\ shown = {"No data available."}

---------------------------------------------------------------------------
(* Vocabulary of the portfolio properties.  A Sharpe ratio s is compared   *)
(* through s * |s|, which has the order of s: (x * |x|) / v for            *)
(* s = x / sqrt(v).                                                        *)
Excess(w) == Dot(w, env.market.mean_returns) - WeightUnit(w) * env.rf_daily
Variance(w) == QuadForm(w, env.market.cov_matrix)
SharpeAtLeast(w, u) ==
    Excess(w) * Abs(Excess(w)) * Variance(u) >= Excess(u) * Abs(Excess(u)) * Variance(w)

\* The grid points of a finished scan that the solver gave weights for, and
\* those of them whose Sharpe ratio is defined.
SolvedPoints == {k \in 1..Len(scan.solved) : scan.solved[k].value # <<>>}
RatedPoints == {k \in SolvedPoints : Variance(scan.solved[k].value) > 0}
BestPoints ==
    {k \in RatedPoints :
        \A j \in RatedPoints : SharpeAtLeast(scan.solved[k].value, scan.solved[j].value)}
MaxSharpeReturned == "w_sharpe" \in DOMAIN env /\ scan.fn = "max_sharpe_portfolio"

(* C13.  When max_sharpe_portfolio returns it has gone through all         *)
(* n_targets targets, which ascend in equal steps from the smallest to the *)
(* largest mean return; a target without a solution was passed over; the   *)
(* weights returned are those of the first grid point, in grid order,      *)
(* whose Sharpe ratio is the largest among the solved points.              *)
C13_MaxSharpeScansWholeGrid ==
    MaxSharpeReturned =>
        /\ Len(scan.solved) = n_targets
        /\ EQ(scan.solved[1].target, Int2Rat(1))
        /\ EQ(scan.solved[n_targets].target, Int2Rat(3))
        /\ \A k \in 1..(n_targets - 1) :
              LT(scan.solved[k].target, scan.solved[k + 1].target)
        /\ BestPoints # {} =>
              /\ env.w_sharpe.kind = "weights"
              /\ \E b \in BestPoints :
                    /\ \A j \in BestPoints : b <= j
                    /\ env.w_sharpe.w = scan.solved[b].value

\* A finished scan with a target that had no solution and two solved points
\* of different weights that share the largest Sharpe ratio; the earlier
\* one was returned.
C13_Witness ==
    /\ MaxSharpeReturned
    /\ SolvedPoints # 1..Len(scan.solved)
    /\ \E i, j \in BestPoints :
          /\ i < j
          /\ scan.solved[i].value # scan.solved[j].value
          /\ env.w_sharpe.w = scan.solved[i].value
          /\ \A b \in BestPoints : i <= b

\* The frontier table of a call of efficient_frontier that has returned.
FrontierReturned == "ef" \in DOMAIN env /\ scan.fn = "efficient_frontier"
\* The place among the solved grid points of the solved grid point k.
RowOf(k) == Cardinality({j \in SolvedPoints : j <= k})

(* C15.  The table efficient_frontier returns has one row for each grid    *)
(* target the solver gave weights for and no other row, in the order of    *)
(* the targets, which ascend; a row's Return is its target and its Risk    *)
(* and weights are those of the solve of that target; it has between 0     *)
(* and n_portfolios rows.                                                  *)
C15_FrontierRowsAreTheSolvedTargets ==
    FrontierReturned =>
        /\ Len(scan.solved) = n_portfolios
        /\ \A k \in 1..(n_portfolios - 1) :
              LT(scan.solved[k].target, scan.solved[k + 1].target)
        /\ Len(env.ef) = Cardinality(SolvedPoints)
        /\ Len(env.ef) \in 0..n_portfolios
        /\ \A k \in SolvedPoints :
              /\ env.ef[RowOf(k)].Return = scan.solved[k].target
              /\ env.ef[RowOf(k)].weights = scan.solved[k].value
              /\ env.ef[RowOf(k)].Risk = Variance(scan.solved[k].value)
        /\ \A i \in 1..(Len(env.ef) - 1) : LT(env.ef[i].Return, env.ef[i + 1].Return)

\* A frontier whose first target had no solution and whose table has a row
\* of a later target.
C15_Witness ==
    /\ FrontierReturned
    /\ 1 \notin SolvedPoints
    /\ Len(env.ef) >= 1
    /\ env.ef[1].Return = scan.solved[2].target
    /\ env.ef[1].weights = <<1, 1>>

(* C14.  In the two grid scans a grid point that fails is dropped and the  *)
(* scan goes on, and a scan in which no grid point succeeded does not      *)
(* return a result: max_sharpe_portfolio returns no vector of missing      *)
(* values and efficient_frontier no empty table.                           *)
C14_ScanWithoutPointIsAnError ==
    /\ pc = "raised" => scan.fn \notin {"max_sharpe_portfolio", "efficient_frontier"}
    /\ "w_sharpe" \in DOMAIN env => env.w_sharpe.kind # "missing"
    /\ "ef" \in DOMAIN env => env.ef # <<>>

(* C17.  A solver failure in min_variance_portfolio is caught and reported *)
(* as a failure of its own: no exception of the solver leaves the call,    *)
(* and the call returns no vector of missing values in the place of        *)
(* weights.                                                                *)
C17_MinVarianceFailureIsSurfaced ==
    /\ pc = "raised" => scan.fn # "min_variance_portfolio"
    /\ "w_minvar" \in DOMAIN env => env.w_minvar.kind = "weights"

---------------------------------------------------------------------------
(* Vocabulary of the cointegration properties.                             *)
RECURSIVE Exceedances(_, _, _)
\* The number of the first n hypotheses whose statistic lies strictly above
\* its critical value.
Exceedances(stats, crit, n) ==
    IF n = 0 THEN 0
    ELSE Exceedances(stats, crit, n - 1) + (IF stats[n] > crit[n] THEN 1 ELSE 0)
JohansenDone == "coint_rank" \in DOMAIN env
Called(fn) == \E i \in 1..Len(calls) : calls[i] = fn

(* C18.  The cointegration rank the page works with is the number of       *)
(* hypotheses r = 0 .. k-1 whose trace statistic is strictly greater than  *)
(* its 95% critical value: statistics 30, 10 against critical values 20,   *)
(* 15 give rank 1; the rank lies between 0 and the number of instruments.  *)
C18_RankCountsStrictExceedances ==
    JohansenDone =>
        /\ env.coint_rank = Exceedances(env.trace_stats, env.crit_95, Len(env.trace_stats))
        /\ env.coint_rank \in 0..Len(env.trace_stats)
        /\ (env.trace_stats = <<30, 10>> /\ env.crit_95 = <<20, 15>>) => env.coint_rank = 1
        /\ (\A r \in 1..Len(env.trace_stats) : env.trace_stats[r] <= env.crit_95[r])
              => env.coint_rank = 0

\* The test of the claim's example, with rank 1.
C18_Witness ==
    /\ JohansenDone
    /\ env.trace_stats = <<30, 10>>
    /\ env.crit_95 = <<20, 15>>
    /\ env.coint_rank = 1

(* C19.  With rank 0 the page reports that no cointegration was detected   *)
(* and stops: fit_vecm is not called and no table of beta or alpha exists. *)
(* With a rank above 0 fit_vecm is called once, with exactly that rank.    *)
C19_VecmOnlyWithCointegration ==
    /\ (JohansenDone /\ env.coint_rank = 0 /\ pc # "gate") =>
          /\ pc = "stopped"
          /\ "No cointegration detected at the 5% level. VECM may not be appropriate." \in shown
          /\ ~Called("fit_vecm")
          /\ DOMAIN env \cap {"vecm_results", "beta", "alpha"} = {}
    /\ (JohansenDone /\ env.coint_rank > 0 /\ pc # "gate") =>
          /\ pc = "done"
          /\ Cardinality({i \in 1..Len(calls) : calls[i] = "fit_vecm"}) = 1
          /\ env.vecm_results.coint_rank = env.coint_rank
          /\ Len(env.beta) = env.coint_rank
          /\ Len(env.alpha) = env.coint_rank
    /\ Called("fit_vecm") => (JohansenDone /\ env.coint_rank > 0)

\* A run stopped at the gate: a statistic equal to its critical value and
\* none above, rank 0.
C19_Witness ==
    /\ JohansenDone
    /\ \E r \in 1..Len(env.trace_stats) : env.trace_stats[r] = env.crit_95[r]
    /\ env.coint_rank = 0
    /\ pc = "stopped"
    /\ ~Called("fit_vecm")

---------------------------------------------------------------------------
(* Vocabulary of the F test.                                               *)
FTestDone == "F_stat" \in DOMAIN env
\* The number of lag coefficients of the independent banks, which the
\* restricted model leaves out.
k_extra == env.indep_banks * env.max_lags

(* C20.  The F statistic of the page is                                    *)
(* ((RSS_r - RSS_u) / k_extra) / (RSS_u / (n - k_total - 1)) with k_extra  *)
(* the number of independent banks times the number of lags, and the       *)
(* first degrees of freedom of the p-value are that same k_extra.          *)
C20_FStatisticUsesOmittedCoefficients ==
    FTestDone =>
        /\ env.dfn = k_extra
        /\ env.F_stat =
              FloatDiv(FloatDiv(Fin(env.restricted_model.ssr - env.unrestricted_model.ssr, 1),
                                Fin(k_extra, 1)),
                       FloatDiv(Fin(env.unrestricted_model.ssr, 1),
                                Fin(env.unrestricted_model.nobs - k_extra - 1, 1)))

---------------------------------------------------------------------------
(* C28.  The long-short strategies report a whole, non-negative number of  *)
(* trades: each change of their position is a flip between +1 and -1, so   *)
(* half the sum of the absolute position differences has no fraction.      *)
C28_LongShortTradesAreWhole ==
    \A j \in 1..Len(results) :
        results[j].Strategy \in LongShortStrategies =>
            LET r == results[j]
            IN  /\ r.Trades.den # 0
                /\ r.Trades.num % r.Trades.den = 0
                /\ r.Trades.num * r.Trades.den >= 0
                /\ \A i \in 2..Len(r.Data) :
                      Abs(r.Data[i].Position - r.Data[i - 1].Position) \in {0, 2}

---------------------------------------------------------------------------
(* C29.  For every number of lags of the slider and every non-empty choice *)
(* of independent banks the two degrees of freedom of the F test are       *)
(* strictly positive, so that F_stat is computed without a division by     *)
(* zero; with one lag the first of them is not 0.                          *)
C29_DegreesOfFreedomArePositive ==
    FTestDone =>
        /\ env.dfn > 0
        /\ env.dfd > 0
        /\ env.F_stat.cls = "fin"

---------------------------------------------------------------------------
(* C21.  The two regressions of the page are nested: the unrestricted      *)
(* model regresses on the k own lags of the dependent bank and the k lags  *)
(* of every independent bank, the restricted model on the k own lags       *)
(* only, so the restricted regressors are among the unrestricted ones, the *)
(* restricted RSS is not below the unrestricted RSS and F is not negative. *)
OwnLags == {<<0, lag>> : lag \in 1..env.max_lags}
CrossLags == {<<bank, lag>> : bank \in 1..env.indep_banks, lag \in 1..env.max_lags}

C21_RegressionsAreNested ==
    FTestDone =>
        /\ env.unrestricted_model.exog = OwnLags \cup CrossLags
        /\ env.restricted_model.exog = OwnLags
        /\ env.restricted_model.exog \subseteq env.unrestricted_model.exog
        /\ env.restricted_model.ssr >= env.unrestricted_model.ssr
        /\ env.F_stat.cls = "fin" => env.F_stat.num * env.F_stat.den >= 0

---------------------------------------------------------------------------
(* Vocabulary of the lag structure.                                        *)
LagLoopRuns == scan.fn = "lag_structure"
\* The coefficient the unrestricted fit gave the column of `bank` at `lag`.
Beta(bank, lag) ==
    LET p == CHOOSE q \in 1..Len(scan.coef_series) : scan.coef_series[q].name = <<bank, lag>>
    IN  scan.coef_series[p].coef
RECURSIVE SumOver(_, _, _)
\* term[1] + ... + term[n] for an operator term of one bank's lags.
SumOver(bank, n, weighted) ==
    IF n = 0 THEN 0
    ELSE SumOver(bank, n - 1, weighted)
         + (IF weighted THEN n * Beta(bank, n) ELSE Beta(bank, n))

(* C22.  For each independent bank the mean lag shown is the mean of the   *)
(* lags 1..k, whatever the coefficients are, and the weighted lag is       *)
(* sum(lag x beta) / sum(beta) over that bank's own k lag coefficients,    *)
(* NaN when they sum to zero.                                              *)
C22_MeanAndWeightedLag ==
    LagLoopRuns =>
        /\ Len(scan.metrics) = scan.i - 1
        /\ pc = "done" => Len(scan.metrics) = env.indep_banks
        /\ \A b \in 1..Len(scan.metrics) :
              LET m == scan.metrics[b]
                  total == SumOver(b, env.max_lags, FALSE)
              IN  /\ m.bank = b
                  /\ m.mean_lag.num * 2 = (env.max_lags + 1) * m.mean_lag.den
                  /\ m.mean_lag.den # 0
                  /\ IF total = 0 THEN IsNaN(m.weighted_lag)
                     ELSE /\ ~IsNaN(m.weighted_lag)
                          /\ m.weighted_lag.num * total
                                = SumOver(b, env.max_lags, TRUE) * m.weighted_lag.den

\* A finished summary of two banks and two lags: the first bank's
\* coefficients 1, -1 sum to zero, the second's are -1, -1.
C22_Witness ==
    /\ LagLoopRuns
    /\ pc = "done"
    /\ env.max_lags = 2
    /\ Len(scan.metrics) = 2
    /\ Beta(1, 1) = 1 /\ Beta(1, 2) = -1
    /\ Beta(2, 1) = -1 /\ Beta(2, 2) = -1
    /\ IsNaN(scan.metrics[1].weighted_lag)
    /\ EQ(scan.metrics[2].weighted_lag, Rat(3, 2))
    /\ EQ(scan.metrics[1].mean_lag, Rat(3, 2))

---------------------------------------------------------------------------
(* C23.  When the return series of a bank is empty or too short for the    *)
(* orders p and q of the model, the GARCH page reports insufficient data   *)
(* for that bank and does not hand the series to fit_garch, neither to     *)
(* fit on it nor to fail on it; the loop goes on with the other banks.     *)
GarchLoopRuns == scan.fn = "garch_loop"
LeastObservations == Max(p_default, q_default) + 1

C23_ShortSeriesAreReported ==
    GarchLoopRuns =>
        /\ \A f \in 1..Len(scan.fits) : scan.fits[f].nobs >= LeastObservations
        /\ (env.returns < LeastObservations /\ scan.i > 1) =>
              /\ "Insufficient data for GARCH estimation." \in shown
              /\ ~Called("fit_garch")
              /\ pc # "raised"
        /\ (env.returns < LeastObservations /\ pc = "done") => scan.i = env.banks + 1

---------------------------------------------------------------------------
(* C24.  get_returns on n prices gives the n - 1 simple changes            *)
(* (p[i+1] - p[i]) / p[i] of consecutive observations, in order, the first *)
(* observation having no return; on strictly increasing positive prices    *)
(* every one of them is strictly positive.                                 *)
ReturnsComputed == page = "data_loader" /\ pc = "returned"
StrictlyIncreasing(p) == \A i \in 1..(Len(p) - 1) : p[i] < p[i + 1]

C24_ReturnsOfConsecutivePrices ==
    (ReturnsComputed /\ Len(prices) >= 1) =>
        /\ Len(env.returns) = Len(prices) - 1
        /\ \A k \in 1..Len(env.returns) :
              /\ env.returns[k].bar = k + 1
              /\ env.returns[k].val.den # 0
              /\ env.returns[k].val.num * prices[k]
                    = (prices[k + 1] - prices[k]) * env.returns[k].val.den
        /\ StrictlyIncreasing(prices) =>
              \A k \in 1..Len(env.returns) :
                  env.returns[k].val.num * env.returns[k].val.den > 0

\* The returns of four increasing prices whose changes differ.
C24_Witness ==
    /\ ReturnsComputed
    /\ prices = <<1, 2, 3, 5>>
    /\ Len(env.returns) = 3
    /\ EQ(env.returns[1].val, Rat(1, 1))
    /\ EQ(env.returns[2].val, Rat(1, 2))
    /\ EQ(env.returns[3].val, Rat(2, 3))


---------------------------------------------------------------------------
(* The session across the pages.                                           *)

\* A page has fetched and analysed the banks it works on.
Analysed == pc = "analysed"
\* The companies the running page analyses, the companies of the session.
AnalysedCompanies == Range(scan.selected_banks)
SessionCompanies == Range(env.banks)

\* C25: after any navigation every analytics module analyses the companies
\* currently held in the session selection (the pages that let the user pick
\* among them, a part of them), so that a selection changed on the GARCH
\* page is the one Algorithmic Trading works on.
C25_SelectionPersistsAcrossModules ==
    Analysed =>
        IF page \in {"1_Algorithmic_Trading", "5_Distributed_Lag_Model"}
        THEN AnalysedCompanies \subseteq SessionCompanies
        ELSE AnalysedCompanies = SessionCompanies

\* C26: after the returns' columns are renamed by position, every label is
\* the company whose ticker heads that column of the fetched table.
C26_LabelsMatchFetchedColumns ==
    (Analysed /\ page # "1_Algorithmic_Trading") =>
        \A i \in 1..Len(scan.columns) : BANK_TICKERS[scan.labels[i]] = scan.columns[i]

\* The number of companies a page asks for before it goes on.
Required(target) == IF target = "4_GARCH_Volatility" THEN 1 ELSE 2
\* A button of the Home page has refused to navigate.
HomeRefuses == page = "app" /\ page' = "app" /\ shown' # {}

\* C27: a page entered from a button of the Home page finds at least the
\* number of companies it asks for, and a refusal leaves the mode as it was.
C27_HomeNavigatesOnlyWithEnoughCompanies ==
    /\ [](pc = "enter" /\ scan.via = "app" => Len(env.banks) >= Required(page))
    /\ [][HomeRefuses => env'.mode = env.mode]_vars

============================================================================
